---- MODULE Spec2Model ----
(***************************************************************************)
(* Model of the CSharp Markdown Exporter extension                         *)
(* (src/CSharpMarkdownExporter/extension.ts) and of the program that       *)
(* generates and packages its project (src/CSharpMarkdownExporter/         *)
(* Program.cs).                                                            *)
(*                                                                         *)
(* Strings are TLA+ strings; "\n" is the line feed.  A TLA+ string cannot  *)
(* hold the backquote character, so in every string of this model the      *)
(* tilde stands for the backquote: the source's fence of three backquotes  *)
(* is written "~~~" here.                                                  *)
(***************************************************************************)
EXTENDS Naturals, Sequences, FiniteSets, TLC

VARIABLES
    disk,           \* the file system: path -> the file's bytes, or Unreadable
    args,           \* the arguments buildMarkdown is called with
    calls,          \* the calls of buildMarkdown made so far, with their results
    tabGroups,      \* vscode.window.tabGroups.all: the groups, each its tabs
    textDocuments,  \* vscode.workspace.textDocuments
    collected,      \* what the calls of getAllOpenedTextDocuments returned
    workspaceFolders,  \* vscode.workspace.workspaceFolders
    inv,            \* the invocations of the export command: each one's
                    \* position, locals and what it has done so far
    gitStdout,      \* the standard output of one run of git ls-files
    parsed,         \* what getGitFiles made of that output
    target,         \* Program.cs: the directory csharp-md-exporter, its
                    \* subdirectories and files (path -> content)
    resource,       \* Program.cs: the embedded resource, if the build has it
    pc,             \* Program.cs: the statement Main is at
    console,        \* Program.cs: the lines written to the console
    procs,          \* Program.cs: the processes RunCommand has started
    ops,            \* Program.cs: what the run has done to the directory and
                    \* with processes so far, in order
    emitted         \* the files found in the directory when each run of
                    \* Main had written the skeleton

gitVars == <<gitStdout, parsed>>
scaffoldVars == <<target, resource, pc, console, procs, ops, emitted>>
vars == <<disk, args, calls, tabGroups, textDocuments, collected, workspaceFolders, inv,
          gitVars, scaffoldVars>>

\* No directory, no file.
NoTarget == [dirs |-> {}, files |-> [p \in {} |-> ""]]

\* getGitFiles is not being run.
GitIdle == gitStdout = "" /\ parsed = <<>>

\* Program.cs is not being run.
ScaffoldIdle ==
    /\ target = NoTarget
    /\ resource = <<>>
    /\ pc = "off"
    /\ console = <<>>
    /\ procs = <<>>
    /\ ops = <<>>
    /\ emitted = <<>>

----------------------------------------------------------------------------
(* Strings *)

LF == "\n"

\* The i-th character of s.
CharAt(s, i) == SubSeq(s, i, i)

\* s.startsWith(p)
StartsWith(s, p) == Len(p) <= Len(s) /\ SubSeq(s, 1, Len(p)) = p

\* s.includes(p)
Includes(s, p) ==
    \E i \in 1..(Len(s) + 1) : i + Len(p) - 1 <= Len(s) /\ SubSeq(s, i, i + Len(p) - 1) = p

\* Array.prototype.join
RECURSIVE join(_, _)
join(arr, sep) ==
    IF arr = <<>> THEN ""
    ELSE IF Len(arr) = 1 THEN arr[1]
    ELSE arr[1] \o sep \o join(Tail(arr), sep)

\* The index of the first occurrence of the one-character string c in s at
\* or after position i, or 0.
RECURSIVE IndexFrom(_, _, _)
IndexFrom(s, c, i) ==
    IF i > Len(s) THEN 0
    ELSE IF CharAt(s, i) = c THEN i
    ELSE IndexFrom(s, c, i + 1)

\* String.prototype.split on the one-character separator c.
RECURSIVE split(_, _)
split(s, c) ==
    LET k == IndexFrom(s, c, 1)
    IN  IF k = 0 THEN <<s>>
        ELSE <<SubSeq(s, 1, k - 1)>> \o split(SubSeq(s, k + 1, Len(s)), c)

\* The concatenation of the sequences of a sequence.
RECURSIVE Flatten(_)
Flatten(ss) == IF ss = <<>> THEN <<>> ELSE ss[1] \o Flatten(Tail(ss))

\* s.endsWith(p)
EndsWith(s, p) == Len(p) <= Len(s) /\ SubSeq(s, Len(s) - Len(p) + 1, Len(s)) = p

\* The index of the last occurrence of the one-character string c in s, or 0.
LastIndexOf(s, c) ==
    LET at == {i \in 1..Len(s) : CharAt(s, i) = c}
    IN  IF at = {} THEN 0 ELSE CHOOSE i \in at : \A j \in at : j <= i

UpperCase == "ABCDEFGHIJKLMNOPQRSTUVWXYZ"
LowerCase == "abcdefghijklmnopqrstuvwxyz"

\* String.prototype.toLowerCase
RECURSIVE toLowerCase(_)
toLowerCase(s) ==
    IF s = "" THEN ""
    ELSE LET c == CharAt(s, 1)
             k == IndexFrom(UpperCase, c, 1)
         IN  (IF k = 0 THEN c ELSE CharAt(LowerCase, k))
             \o toLowerCase(SubSeq(s, 2, Len(s)))

\* path.basename of a path that does not end in a separator.
basename(p) == SubSeq(p, LastIndexOf(p, "/") + 1, Len(p))

\* path.extname: from the last "." of the base name to its end; empty when
\* the base name has no ".", when its only "." is its first character, and
\* for "..".
extname(p) ==
    LET base == basename(p)
        k == LastIndexOf(base, ".")
    IN  IF k <= 1 \/ base = ".." THEN "" ELSE SubSeq(base, k, Len(base))

----------------------------------------------------------------------------
(* The file system and fs.readFileSync(path, 'utf-8') *)

Unreadable == "<unreadable>"   \* the file is missing or may not be read

\* A byte that is not valid UTF-8, and the character U+FFFD that decoding
\* puts in its place.
BadByte == "@"
ReplacementChar == "?"

RECURSIVE Utf8Decode(_)
Utf8Decode(bytes) ==
    IF bytes = "" THEN ""
    ELSE (IF CharAt(bytes, 1) = BadByte THEN ReplacementChar ELSE CharAt(bytes, 1))
         \o Utf8Decode(SubSeq(bytes, 2, Len(bytes)))

Threw(e) == [threw |-> TRUE, error |-> e]
Returned(v) == [threw |-> FALSE, value |-> v]

readFileSync(fs, p) ==
    IF fs[p] = Unreadable
    THEN Threw("Error: ENOENT: no such file or directory, open '" \o p \o "'")
    ELSE Returned(Utf8Decode(fs[p]))

----------------------------------------------------------------------------
(* buildMarkdown *)

SlnWarning == "**[Warning] No .sln file found.**\n"
CsprojWarning == "**[Warning] No .csproj file found.**\n"
Fence == "~~~"

\* GitLines with the bullets sorted by path (the model's tracked paths sort
\* as "a.cs" < "b.csproj").
GitLines_Sorted(gitFiles) ==
    LET Bullet(f) == "- " \o f
        Before(x, y) == x = "a.cs" /\ y # "a.cs"
        sorted == SortSeq(gitFiles, Before)
    IN  <<"# Git File Structure">> \o [i \in DOMAIN sorted |-> Bullet(sorted[i])] \o <<"">>

\* GitLines without the closing blank line.
GitLines_NoBlank(gitFiles) ==
    LET Bullet(f) == "- " \o f
    IN  <<"# Git File Structure">> \o [i \in DOMAIN gitFiles |-> Bullet(gitFiles[i])]

\* What buildMarkdown pushes for the Git-tracked file structure.
GitLines(gitFiles) ==
    LET Bullet(f) == "- " \o f
    IN  <<"# Git File Structure">> \o [i \in DOMAIN gitFiles |-> Bullet(gitFiles[i])] \o <<"">>

\* What the body of the loops over slnFiles and csprojFiles pushes for one
\* file whose text was read.
FileBlock(p, text) == <<"# " \o p, Fence \o "xml", text, Fence, "">>

\* SlnLines that pushes the warning after the blocks as well.
SlnLines_AlwaysWarn(slnFiles, fs) ==
    LET Block(p) == FileBlock(p, readFileSync(fs, p).value)
    IN  Flatten([i \in DOMAIN slnFiles |-> Block(slnFiles[i])]) \o <<SlnWarning>>

\* What buildMarkdown pushes for the solution files.
SlnLines(slnFiles, fs) ==
    LET Block(p) == FileBlock(p, readFileSync(fs, p).value)
    IN  IF Len(slnFiles) = 0 THEN <<SlnWarning>>
        ELSE Flatten([i \in DOMAIN slnFiles |-> Block(slnFiles[i])])

\* What buildMarkdown pushes for the project files.
CsprojLines(csprojFiles, fs) ==
    LET Block(p) == FileBlock(p, readFileSync(fs, p).value)
    IN  IF Len(csprojFiles) = 0 THEN <<CsprojWarning>>
        ELSE Flatten([i \in DOMAIN csprojFiles |-> Block(csprojFiles[i])])

\* file.language || ''
OrEmpty(s) == IF s = "" THEN "" ELSE s

\* OpenLines with an untagged opening fence.
OpenLines_NoTag(openFiles) ==
    LET Block(file) == << "# " \o file.filePath, Fence, file.content, Fence, "" >>
    IN  Flatten([i \in DOMAIN openFiles |-> Block(openFiles[i])])

\* What buildMarkdown pushes for the open files.
OpenLines(openFiles) ==
    LET Block(file) == << "# " \o file.filePath,
                          Fence \o OrEmpty(file.language),
                          file.content,
                          Fence,
                          "" >>
    IN  Flatten([i \in DOMAIN openFiles |-> Block(openFiles[i])])

\* buildMarkdown whose project section tests slnFiles.length for its warning.
buildMarkdown_CopyPaste(gitFiles, slnFiles, csprojFiles, openFiles, fs) ==
    LET reads == slnFiles \o csprojFiles
        failing == {i \in 1..Len(reads) : readFileSync(fs, reads[i]).threw}
        first == CHOOSE i \in failing : \A j \in failing : i <= j
        Block(p) == FileBlock(p, readFileSync(fs, p).value)
    IN  IF failing # {}
        THEN readFileSync(fs, reads[first])
        ELSE Returned(join(GitLines(gitFiles)
                           \o SlnLines(slnFiles, fs)
                           \o (IF Len(slnFiles) = 0 THEN <<CsprojWarning>>
                               ELSE Flatten([i \in DOMAIN csprojFiles |-> Block(csprojFiles[i])]))
                           \o OpenLines(openFiles), LF))

\* buildMarkdown(gitFiles, slnFiles, csprojFiles, openFiles) run against the
\* file system fs.  The files are read in the order slnFiles, csprojFiles;
\* the first read that throws ends the call with that exception.
buildMarkdown(gitFiles, slnFiles, csprojFiles, openFiles, fs) ==
    LET reads == slnFiles \o csprojFiles
        failing == {i \in 1..Len(reads) : readFileSync(fs, reads[i]).threw}
        first == CHOOSE i \in failing : \A j \in failing : i <= j
    IN  IF failing # {}
        THEN readFileSync(fs, reads[first])
        ELSE Returned(join(GitLines(gitFiles)
                           \o SlnLines(slnFiles, fs)
                           \o CsprojLines(csprojFiles, fs)
                           \o OpenLines(openFiles), LF))

----------------------------------------------------------------------------
(* buildMarkdown called on bounded inputs, twice, the file system changing  *)
(* between the two calls.                                                   *)

MaxTracked == 2

TrackedPaths == {"a.cs", "b.csproj"}
SeqsUpTo(S, n) == UNION {[1..k -> S] : k \in 0..n}
TrackedInputs == SeqsUpTo(TrackedPaths, MaxTracked)

SlnA == "/w/a.sln"
SlnB == "/w/sub/b.sln"
ProjB == "/w/b.csproj"
ProjC == "/w/sub/c.csproj"
Files == {SlnA, SlnB, ProjB, ProjC}

SlnInputs == {<<>>, <<SlnA>>, <<SlnB, SlnA>>}
CsprojInputs == {<<>>, <<ProjB>>, <<ProjC, ProjB>>}

DocA == [filePath |-> "a.cs", language |-> "csharp", content |-> "x"]
DocNotes ==
    [filePath |-> "/w/notes.md", language |-> "markdown",
     content |-> "- todo\n**[Warning] No .sln file found.**\n~~~xml"]
DocPlain == [filePath |-> "/w/LICENSE", language |-> "", content |-> ""]
OpenInputs == {<<>>, <<DocA>>, <<DocNotes, DocA>>, <<DocPlain>>}

DiskPlain ==
    (SlnA :> "S") @@ (SlnB :> "T\n") @@ (ProjB :> "<P/>") @@ (ProjC :> "<Q/>\n")
DiskOdd ==
    (SlnA :> "@S") @@ (SlnB :> "- z") @@ (ProjB :> "") @@ (ProjC :> "~~~")
DiskGone ==
    (SlnA :> "S") @@ (SlnB :> Unreadable) @@ (ProjB :> "<P/>") @@ (ProjC :> Unreadable)
InitDisks == {DiskPlain, DiskOdd, DiskGone}
FileStates == {Unreadable, "S", "@"}

BuildArgs ==
    [gitFiles : TrackedInputs, slnFiles : SlnInputs,
     csprojFiles : CsprojInputs, openFiles : OpenInputs]

Reverse(q) == [i \in 1..Len(q) |-> q[Len(q) + 1 - i]]

\* workspaceFolders when no folder is open: undefined.
NoFolders == [defined |-> FALSE, folders |-> <<>>]

NoArgs == [gitFiles |-> <<>>, slnFiles |-> <<>>, csprojFiles |-> <<>>, openFiles |-> <<>>]

InitBuild ==
    /\ disk \in InitDisks
    /\ args \in BuildArgs
    /\ calls = <<>>
    /\ tabGroups = <<>>
    /\ textDocuments = <<>>
    /\ collected = <<>>
    /\ workspaceFolders = NoFolders
    /\ inv = <<>>
    /\ GitIdle
    /\ ScaffoldIdle

\* One call of buildMarkdown with the arguments a.
Call(a) ==
    calls' = Append(calls,
        [args |-> a, fs |-> disk,
         ret |-> buildMarkdown(a.gitFiles, a.slnFiles, a.csprojFiles, a.openFiles, disk)])

FirstCall ==
    /\ calls = <<>>
    /\ Call(args)
    /\ UNCHANGED <<disk, args, tabGroups, textDocuments, collected, workspaceFolders, inv,
                 gitVars, scaffoldVars>>

\* The second call: the same arguments, or the same with the tracked paths
\* in the opposite order.
SecondCall ==
    /\ Len(calls) = 1
    /\ \E a \in {args, [args EXCEPT !.gitFiles = Reverse(args.gitFiles)]} : Call(a)
    /\ UNCHANGED <<disk, args, tabGroups, textDocuments, collected, workspaceFolders, inv,
                 gitVars, scaffoldVars>>

\* Between the two calls a file is rewritten, deleted or made unreadable.
FsChange ==
    /\ Len(calls) = 1
    /\ disk = calls[1].fs
    /\ \E f \in Files, c \in FileStates :
           /\ disk[f] # c
           /\ disk' = [disk EXCEPT ![f] = c]
    /\ UNCHANGED <<args, calls, tabGroups, textDocuments, collected, workspaceFolders, inv,
                 gitVars, scaffoldVars>>

NextBuild == FirstCall \/ FsChange \/ SecondCall

SpecBuild == InitBuild /\ [][NextBuild]_vars

----------------------------------------------------------------------------
(* getAllOpenedTextDocuments *)

\* find that falls back on the first document when none has the uri.
find_OrFirst(docs, uri) ==
    LET at == {i \in DOMAIN docs : docs[i].uri = uri}
    IN  IF at = {} THEN <<docs[1]>> ELSE <<docs[CHOOSE i \in at : \A j \in at : i <= j]>>

\* vscode.workspace.textDocuments.find(d => d.uri.toString() === uri): the
\* first text document with that uri, as a sequence of none or one.
find(docs, uri) ==
    LET at == {i \in DOMAIN docs : docs[i].uri = uri}
    IN  IF at = {} THEN <<>> ELSE <<docs[CHOOSE i \in at : \A j \in at : i <= j]>>

\* inputAsAny?.uri
HasUri(input) == "uri" \in DOMAIN input

\* AlreadyCollected that never finds a duplicate.
AlreadyCollected_Never(results, doc) == FALSE

\* results.some(r => r.filePath === doc.fileName)
AlreadyCollected(results, doc) ==
    \E i \in DOMAIN results : results[i].filePath = doc.fileName

\* LanguageFor that switches on the extension as written, not lower-cased,
\* and takes .json for xml.
LanguageFor_Slip(doc) ==
    LET ext == extname(doc.fileName)
    IN  CASE ext = ".cs" -> "csharp"
          [] ext = ".csproj" -> "xml"
          [] ext = ".json" -> "xml"
          [] OTHER -> doc.languageId

\* The code block language for a text document: the switch on the
\* lower-cased extension, with doc.languageId || '' as the default.
LanguageFor(doc) ==
    LET ext == toLowerCase(extname(doc.fileName))
    IN  CASE ext = ".cs" -> "csharp"
          [] ext = ".csproj" -> "xml"
          [] ext = ".json" -> "json"
          [] OTHER -> OrEmpty(doc.languageId)

\* The body of the inner loop for one tab: the results after the tab.
CollectTab(tab, docs, results) ==
    IF ~HasUri(tab.input) THEN results
    ELSE LET found == find(docs, tab.input.uri)
         IN  IF found = <<>> THEN results
             ELSE IF AlreadyCollected(results, found[1]) THEN results
             ELSE Append(results,
                         [filePath |-> found[1].fileName,
                          language |-> LanguageFor(found[1]),
                          content |-> found[1].text])

\* The inner loop over the tabs of one group.
RECURSIVE CollectTabs(_, _, _)
CollectTabs(tabs, docs, results) ==
    IF tabs = <<>> THEN results
    ELSE CollectTabs(Tail(tabs), docs, CollectTab(tabs[1], docs, results))

\* The outer loop over the tab groups.
RECURSIVE CollectGroups(_, _, _)
CollectGroups(groups, docs, results) ==
    IF groups = <<>> THEN results
    ELSE CollectGroups(Tail(groups), docs, CollectTabs(groups[1], docs, results))

getAllOpenedTextDocuments(groups, docs) == CollectGroups(groups, docs, <<>>)

----------------------------------------------------------------------------
(* getAllOpenedTextDocuments called on bounded editor states *)

MaxTabs == 3

TextDoc(u, f, l, t) == [uri |-> u, fileName |-> f, languageId |-> l, text |-> t]

\* The text documents the editor has loaded.  "/w/a.cs" is loaded twice, as
\* the file and as its version in the Git index.
LoadedDocs ==
    << TextDoc("file:///w/a.cs", "/w/a.cs", "csharp", "x"),
       TextDoc("git:/w/a.cs", "/w/a.cs", "csharp", "old"),
       TextDoc("file:///w/P.CSPROJ", "/w/P.CSPROJ", "plaintext", "<P/>"),
       TextDoc("file:///w/d.json", "/w/d.json", "jsonc", "{}"),
       TextDoc("file:///w/data.xml", "/w/data.xml", "xml", "<d/>"),
       TextDoc("file:///w/.cs", "/w/.cs", "plaintext", "z"),
       TextDoc("file:///w/LICENSE", "/w/LICENSE", "", "MIT") >>

\* What a tab may show: a loaded text document, a document that is not
\* loaded, or a diff of two documents, an input without a uri.
TabInputs ==
    {[kind |-> "text", uri |-> LoadedDocs[i].uri] : i \in DOMAIN LoadedDocs}
    \cup {[kind |-> "text", uri |-> "file:///w/gone.cs"],
          [kind |-> "diff", original |-> "git:/w/a.cs", modified |-> "file:///w/a.cs"]}

Tabs == {[input |-> x] : x \in TabInputs}

\* The tabs of up to MaxTabs tabs, in one group or cut into two.
TabArrangements ==
    {<<SubSeq(t, 1, k), SubSeq(t, k + 1, Len(t))>> :
        <<t, k>> \in {tk \in SeqsUpTo(Tabs, MaxTabs) \X (0..MaxTabs) : tk[2] <= Len(tk[1])}}
    \cup {<<t>> : t \in SeqsUpTo(Tabs, MaxTabs)}

InitTabs ==
    /\ tabGroups \in TabArrangements
    /\ textDocuments = LoadedDocs
    /\ collected = <<>>
    /\ disk = DiskPlain
    /\ args = NoArgs
    /\ calls = <<>>
    /\ workspaceFolders = NoFolders
    /\ inv = <<>>
    /\ GitIdle
    /\ ScaffoldIdle

CollectOpen ==
    /\ collected = <<>>
    /\ collected' = <<getAllOpenedTextDocuments(tabGroups, textDocuments)>>
    /\ UNCHANGED <<disk, args, calls, tabGroups, textDocuments, workspaceFolders, inv,
                 gitVars, scaffoldVars>>

NextTabs == CollectOpen

SpecTabs == InitTabs /\ [][NextTabs]_vars

----------------------------------------------------------------------------
(* getGitFiles and findFiles *)

Whitespace == {" ", "\t", "\r", "\n", "\f"}

RECURSIVE trimStart(_)
trimStart(s) ==
    IF s # "" /\ CharAt(s, 1) \in Whitespace
    THEN trimStart(SubSeq(s, 2, Len(s))) ELSE s

RECURSIVE trimEnd(_)
trimEnd(s) ==
    IF s # "" /\ CharAt(s, Len(s)) \in Whitespace
    THEN trimEnd(SubSeq(s, 1, Len(s) - 1)) ELSE s

\* String.prototype.trim
trim(s) == trimEnd(trimStart(s))

\* The lines of the output trimmed and the empty ones dropped, as in the
\* source, but a path kept only where it occurs first.
ParseGitOutput_Unique(stdout) ==
    LET raw == split(stdout, LF)
        NonEmpty(line) == Len(line) > 0
        lines == SelectSeq([i \in DOMAIN raw |-> trim(raw[i])], NonEmpty)
        Keep[i \in 0..Len(lines)] ==
            IF i = 0 THEN <<>>
            ELSE IF \E j \in 1..(i - 1) : lines[j] = lines[i] THEN Keep[i - 1]
            ELSE Append(Keep[i - 1], lines[i])
    IN  Keep[Len(lines)]

\* stdout.split('\n').map(line => line.trim()).filter(line => line.length > 0)
ParseGitOutput(stdout) ==
    LET raw == split(stdout, LF)
        NonEmpty(line) == Len(line) > 0
    IN  SelectSeq([i \in DOMAIN raw |-> trim(raw[i])], NonEmpty)

\* What exec hands its callback when the git process is over: an error (the
\* process failed or could not be run) or none, and the standard output.
GitOutcomes ==
    { [failed |-> FALSE, error |-> "", stdout |-> "a.cs\nb.csproj\n"],
      [failed |-> FALSE, error |-> "", stdout |-> " b.csproj \n\na.cs"],
      [failed |-> TRUE, stdout |-> "",
       error |-> "Error: Command failed: git ls-files\nfatal: not a git repository (or any of the parent directories): .git\n"],
      [failed |-> TRUE, stdout |-> "",
       error |-> "Error: Command failed: git ls-files\n/bin/sh: 1: git: not found\n"] }

\* getGitFiles that resolves with the output whatever the error.
getGitFiles_IgnoreError(o) == Returned(ParseGitOutput(o.stdout))

\* How the promise of getGitFiles settles for the callback's arguments o.
getGitFiles(o) ==
    IF o.failed THEN Threw(o.error) ELSE Returned(ParseGitOutput(o.stdout))

SlnPattern == "**/*.sln"
CsprojPattern == "**/*.csproj"

\* How the promise of findFiles(pattern) may settle: with the paths of the
\* files the workspace search found, or rejected, the search having failed.
findFiles(pattern) ==
    {Returned(r) : r \in IF pattern = SlnPattern THEN SlnInputs ELSE CsprojInputs}
    \cup {Threw("Error: the search failed")}

----------------------------------------------------------------------------
(* The export command, csharp-md-exporter.export *)

NoWorkspaceMessage == "No workspace is open. Please open a folder or workspace first."

\* !workspaceFolders || workspaceFolders.length === 0
NoWorkspace(wf) == ~wf.defined \/ Len(wf.folders) = 0

\* An invocation before the command's handler has started.
IdleInvocation ==
    [pc |-> "idle",
     git |-> <<>>,          \* what exec handed the callback, once it has
     gitFiles |-> <<>>, slnFiles |-> <<>>, csprojFiles |-> <<>>,
     openFiles |-> <<>>, md |-> "",
     spawned |-> <<>>,      \* the processes exec started
     searched |-> <<>>,     \* the patterns given to vscode.workspace.findFiles
     collects |-> 0,        \* the calls of getAllOpenedTextDocuments
     builds |-> 0,          \* the calls of buildMarkdown
     errors |-> <<>>,       \* the messages given to showErrorMessage
     docs |-> <<>>,         \* the documents openTextDocument opened
     shown |-> 0]           \* the calls of showTextDocument

\* Catch that shows no message.
Catch_Silent(cur, e) == [cur EXCEPT !.pc = "done"]

\* The catch block: the invocation cur after the exception e was caught.
Catch(cur, e) ==
    [cur EXCEPT !.errors = Append(@, "Error: " \o e), !.pc = "done"]

\* Invoke without the return after the first showErrorMessage: the handler
\* goes on to workspaceFolders[0], which throws.
Invoke_NoReturn(i) ==
    /\ inv[i].pc = "idle"
    /\ inv' = [inv EXCEPT ![i] =
          IF NoWorkspace(workspaceFolders)
          THEN Catch([@ EXCEPT !.errors = Append(@, NoWorkspaceMessage)],
                     "TypeError: Cannot read properties of undefined (reading 'uri')")
          ELSE [@ EXCEPT !.spawned = Append(@, [command |-> "git ls-files",
                                                cwd |-> workspaceFolders.folders[1]]),
                         !.pc = "git"]]
    /\ UNCHANGED <<disk, args, calls, tabGroups, textDocuments, collected, workspaceFolders,
                 gitVars, scaffoldVars>>

\* The command is invoked: with no workspace the handler shows the message
\* and returns; otherwise getGitFiles starts git ls-files in the first
\* folder and the handler awaits it.
Invoke(i) ==
    /\ inv[i].pc = "idle"
    /\ inv' = [inv EXCEPT ![i] =
          IF NoWorkspace(workspaceFolders)
          THEN [@ EXCEPT !.errors = Append(@, NoWorkspaceMessage), !.pc = "done"]
          ELSE [@ EXCEPT !.spawned = Append(@, [command |-> "git ls-files",
                                                cwd |-> workspaceFolders.folders[1]]),
                         !.pc = "git"]]
    /\ UNCHANGED <<disk, args, calls, tabGroups, textDocuments, collected, workspaceFolders,
                 gitVars, scaffoldVars>>

\* The git process is over and getGitFiles settles; on success the handler
\* calls findFiles('**/*.sln') and awaits it.
GitExit(i) ==
    /\ inv[i].pc = "git"
    /\ \E o \in GitOutcomes :
          LET r == getGitFiles(o)
          IN  inv' = [inv EXCEPT ![i] =
                IF r.threw
                THEN Catch([@ EXCEPT !.git = <<o>>], r.error)
                ELSE [@ EXCEPT !.git = <<o>>,
                               !.gitFiles = r.value,
                               !.searched = Append(@, SlnPattern),
                               !.pc = "sln"]]
    /\ UNCHANGED <<disk, args, calls, tabGroups, textDocuments, collected, workspaceFolders,
                 gitVars, scaffoldVars>>

\* findFiles('**/*.sln') settles; on success the handler calls
\* findFiles('**/*.csproj') and awaits it.
FindSlnDone(i) ==
    /\ inv[i].pc = "sln"
    /\ \E r \in findFiles(SlnPattern) :
          inv' = [inv EXCEPT ![i] =
                IF r.threw
                THEN Catch(@, r.error)
                ELSE [@ EXCEPT !.slnFiles = r.value,
                               !.searched = Append(@, CsprojPattern),
                               !.pc = "csproj"]]
    /\ UNCHANGED <<disk, args, calls, tabGroups, textDocuments, collected, workspaceFolders,
                 gitVars, scaffoldVars>>

\* findFiles('**/*.csproj') settles; on success the handler collects the
\* open documents, builds the Markdown and calls openTextDocument, all in
\* one turn; an exception of buildMarkdown goes to the catch block.
FindCsprojDone(i) ==
    /\ inv[i].pc = "csproj"
    /\ \E r \in findFiles(CsprojPattern) :
          LET open == getAllOpenedTextDocuments(tabGroups, textDocuments)
              built == buildMarkdown(inv[i].gitFiles, inv[i].slnFiles, r.value, open, disk)
          IN  inv' = [inv EXCEPT ![i] =
                IF r.threw
                THEN Catch(@, r.error)
                ELSE IF built.threw
                THEN Catch([@ EXCEPT !.csprojFiles = r.value,
                                     !.openFiles = open,
                                     !.collects = @ + 1,
                                     !.builds = @ + 1], built.error)
                ELSE [@ EXCEPT !.csprojFiles = r.value,
                               !.openFiles = open,
                               !.collects = @ + 1,
                               !.builds = @ + 1,
                               !.md = built.value,
                               !.pc = "open"]]
    /\ UNCHANGED <<disk, args, calls, tabGroups, textDocuments, collected, workspaceFolders,
                 gitVars, scaffoldVars>>

\* The tab of the text document of the uri u.
TabOf(u) == [input |-> [kind |-> "text", uri |-> u]]

\* The name the editor gives the k-th untitled document.
UntitledName(k) == "Untitled-" \o (CASE k = 1 -> "1" [] k = 2 -> "2" [] OTHER -> "n")

\* The untitled Markdown document openTextDocument({content, language})
\* creates, the text documents docs being loaded.
NewUntitled(docs, content) ==
    LET name == UntitledName(1 + Cardinality({k \in DOMAIN docs : docs[k].languageId = "markdown"
                                                  /\ StartsWith(docs[k].uri, "untitled:")}))
    IN  TextDoc("untitled:" \o name, name, "markdown", content)

\* showTextDocument(doc, ViewColumn.Beside): the document's tab is added to
\* the group at the side, which is opened when there is one group or none.
ShowBeside(groups, doc) ==
    IF Len(groups) < 2 THEN Append(groups, <<TabOf(doc.uri)>>)
    ELSE [groups EXCEPT ![Len(groups)] = Append(@, TabOf(doc.uri))]

\* OpenDone that opens what was built last, by whichever invocation, as if
\* md were a variable of the module.
OpenDone_LastBuilt(i) ==
    /\ inv[i].pc = "open"
    /\ \E opened \in BOOLEAN :
          LET last == CHOOSE j \in DOMAIN inv :
                          inv[j].builds > 0 /\ \A k \in DOMAIN inv : inv[k].builds > 0 => k <= j
              doc == NewUntitled(textDocuments, inv[last].md)
          IN  IF opened
              THEN /\ inv' = [inv EXCEPT ![i] =
                          [@ EXCEPT !.docs = Append(@, [content |-> doc.text,
                                                       language |-> doc.languageId,
                                                       uri |-> doc.uri]),
                                    !.shown = @ + 1,
                                    !.pc = "done"]]
                   /\ textDocuments' = Append(textDocuments, doc)
                   /\ tabGroups' = ShowBeside(tabGroups, doc)
              ELSE /\ inv' = [inv EXCEPT ![i] =
                          Catch(@, "Error: the document could not be opened")]
                   /\ UNCHANGED <<tabGroups, textDocuments>>
    /\ UNCHANGED <<disk, args, calls, collected, workspaceFolders, gitVars, scaffoldVars>>

\* openTextDocument settles: with the new Markdown document of the content
\* md, now one of the editor's text documents, which the handler passes to
\* showTextDocument, or rejected.
OpenDone(i) ==
    /\ inv[i].pc = "open"
    /\ \E opened \in BOOLEAN :
          LET doc == NewUntitled(textDocuments, inv[i].md)
          IN  IF opened
              THEN /\ inv' = [inv EXCEPT ![i] =
                          [@ EXCEPT !.docs = Append(@, [content |-> doc.text,
                                                       language |-> doc.languageId,
                                                       uri |-> doc.uri]),
                                    !.shown = @ + 1,
                                    !.pc = "done"]]
                   /\ textDocuments' = Append(textDocuments, doc)
                   /\ tabGroups' = ShowBeside(tabGroups, doc)
              ELSE /\ inv' = [inv EXCEPT ![i] =
                          Catch(@, "Error: the document could not be opened")]
                   /\ UNCHANGED <<tabGroups, textDocuments>>
    /\ UNCHANGED <<disk, args, calls, collected, workspaceFolders, gitVars, scaffoldVars>>

\* The editor states the command is run in.
WorkspaceStates ==
    {NoFolders, [defined |-> TRUE, folders |-> <<>>], [defined |-> TRUE, folders |-> <<"/w">>]}

EditorTabs ==
    { <<>>,
      << <<TabOf("git:/w/a.cs"),
            [input |-> [kind |-> "diff", original |-> "git:/w/a.cs",
                        modified |-> "file:///w/a.cs"]]>>,
         <<TabOf("file:///w/a.cs"), TabOf("file:///w/data.xml")>> >> }

Init ==
    /\ disk \in InitDisks
    /\ workspaceFolders \in WorkspaceStates
    /\ tabGroups \in EditorTabs
    /\ textDocuments = LoadedDocs
    /\ inv = [i \in {1} |-> IdleInvocation]
    /\ args = NoArgs
    /\ calls = <<>>
    /\ collected = <<>>
    /\ GitIdle
    /\ ScaffoldIdle

Next ==
    \/ \E i \in DOMAIN inv : Invoke(i)
    \/ \E i \in DOMAIN inv : GitExit(i)
    \/ \E i \in DOMAIN inv : FindSlnDone(i)
    \/ \E i \in DOMAIN inv : FindCsprojDone(i)
    \/ \E i \in DOMAIN inv : OpenDone(i)

Spec == Init /\ [][Next]_vars

----------------------------------------------------------------------------
(* The text the Markdown document is expected to hold, every line ended by *)
(* a line feed.                                                            *)

RECURSIVE BulletText(_)
BulletText(P) ==
    IF P = <<>> THEN "" ELSE "- " \o P[1] \o LF \o BulletText(Tail(P))

GitText(P) == "# Git File Structure" \o LF \o BulletText(P) \o LF

RECURSIVE XmlBlocksText(_, _)
XmlBlocksText(files, fs) ==
    IF files = <<>> THEN ""
    ELSE "# " \o files[1] \o LF \o "~~~xml" \o LF
         \o Utf8Decode(fs[files[1]]) \o LF \o "~~~" \o LF \o LF
         \o XmlBlocksText(Tail(files), fs)

SlnLiteral == "**[Warning] No .sln file found.**"
CsprojLiteral == "**[Warning] No .csproj file found.**"

FoundText(files, fs, literal) ==
    IF files = <<>> THEN literal \o LF \o LF ELSE XmlBlocksText(files, fs)

RECURSIVE OpenText(_)
OpenText(docs) ==
    IF docs = <<>> THEN ""
    ELSE "# " \o docs[1].filePath \o LF \o "~~~" \o docs[1].language \o LF
         \o docs[1].content \o LF \o "~~~" \o LF \o LF
         \o OpenText(Tail(docs))

\* The calls that returned a document.
ReturnedCalls == {k \in DOMAIN calls : ~calls[k].ret.threw}

\* The document of call k with its last line ended too.
Doc(k) == calls[k].ret.value \o LF

\* The part of call k's document between the Git section and the project
\* section, and the part from the project section to the open documents.
SlnSection(k) ==
    LET c == calls[k]
    IN  SubSeq(Doc(k), Len(GitText(c.args.gitFiles)) + 1,
               Len(Doc(k)) - Len(OpenText(c.args.openFiles))
                           - Len(FoundText(c.args.csprojFiles, c.fs, CsprojLiteral)))
CsprojSection(k) ==
    LET c == calls[k]
    IN  SubSeq(Doc(k), Len(Doc(k)) - Len(OpenText(c.args.openFiles))
                           - Len(FoundText(c.args.csprojFiles, c.fs, CsprojLiteral)) + 1,
               Len(Doc(k)) - Len(OpenText(c.args.openFiles)))

IsBullet(line) == StartsWith(line, "- ")

----------------------------------------------------------------------------
(* C1 *)

\* C1 as stated: the bullet lines of the whole output are exactly the lines
\* "- <p>" for the tracked paths p, in their order.
C1_BulletLinesOfOutput ==
    \A k \in ReturnedCalls :
        LET Bullet(f) == "- " \o f
        IN  SelectSeq(split(calls[k].ret.value, LF), IsBullet)
              = [i \in DOMAIN calls[k].args.gitFiles |-> Bullet(calls[k].args.gitFiles[i])]

\* C1, amended: the output begins with the heading line, followed by exactly
\* |P| lines "- <p>" in the order of P, followed by an empty line, so the
\* Git File Structure section holds exactly |P| bullet lines.
C1_GitSectionBullets ==
    \A k \in ReturnedCalls :
        LET P == calls[k].args.gitFiles
            L == split(calls[k].ret.value, LF)
        IN  /\ Len(L) >= Len(P) + 2
            /\ L[1] = "# Git File Structure"
            /\ \A i \in 1..Len(P) : L[i + 1] = "- " \o P[i]
            /\ L[Len(P) + 2] = ""

\* A call returned a document for two different tracked paths and an open
\* document whose content holds a bullet line of its own.
C1_Witness ==
    \E k \in ReturnedCalls :
        LET a == calls[k].args
        IN  /\ Len(a.gitFiles) = 2 /\ a.gitFiles[1] # a.gitFiles[2]
            /\ \E i \in DOMAIN a.openFiles :
                   \E l \in DOMAIN split(a.openFiles[i].content, LF) :
                       IsBullet(split(a.openFiles[i].content, LF)[l])

----------------------------------------------------------------------------
(* C2 *)

\* C2 as stated: with no solution file the output contains the warning
\* literal and no xml-tagged fence under a solution file's heading; otherwise
\* the output does not contain the warning literal and contains, for every
\* solution file, an xml-tagged fenced block holding the file's content as
\* it is on disk.
C2_WarningXorBlocksInOutput ==
    \A k \in ReturnedCalls :
        LET c == calls[k]
            v == c.ret.value
            S == c.args.slnFiles
        IN  IF S = <<>>
            THEN /\ Includes(v, SlnLiteral)
                 /\ \A p \in {SlnA, SlnB} :
                        ~Includes(v, "# " \o p \o LF \o "~~~xml")
            ELSE /\ ~Includes(v, SlnLiteral)
                 /\ \A i \in DOMAIN S :
                        Includes(v, "# " \o S[i] \o LF \o "~~~xml" \o LF
                                    \o c.fs[S[i]] \o LF \o "~~~" \o LF)

\* C2, amended: the solution section, the part of the output between the Git
\* section and the project section, is the warning line and a blank line
\* when there is no solution file, and otherwise exactly one xml-tagged
\* fenced block per solution file, in input order, holding the file's bytes
\* decoded as UTF-8.
C2_SolutionSection ==
    \A k \in ReturnedCalls :
        LET c == calls[k]
            S == c.args.slnFiles
        IN  IF S = <<>>
            THEN SlnSection(k) = SlnLiteral \o LF \o LF
            ELSE SlnSection(k) = XmlBlocksText(S, c.fs)

\* A call returned a document for two solution files, one of them holding a
\* byte that is not valid UTF-8, and an open document holding the warning
\* literal in its content.
C2_Witness ==
    \E k \in ReturnedCalls :
        LET c == calls[k]
        IN  /\ Len(c.args.slnFiles) = 2
            /\ \E i \in 1..2 : Includes(c.fs[c.args.slnFiles[i]], BadByte)
            /\ \E i \in DOMAIN c.args.openFiles :
                   Includes(c.args.openFiles[i].content, SlnLiteral)

----------------------------------------------------------------------------
(* C3 *)

\* C3: the output is the Git section, then the solution section, then the
\* project section, then the open documents, each in input order; the
\* project section is built like the solution section and is the .csproj
\* warning exactly when there is no project file, whatever the solution
\* files.
C3_SectionOrder ==
    \A k \in ReturnedCalls :
        LET c == calls[k]
            a == c.args
        IN  /\ Doc(k) = GitText(a.gitFiles)
                         \o FoundText(a.slnFiles, c.fs, SlnLiteral)
                         \o FoundText(a.csprojFiles, c.fs, CsprojLiteral)
                         \o OpenText(a.openFiles)
            /\ (CsprojSection(k) = CsprojLiteral \o LF \o LF) <=> (a.csprojFiles = <<>>)

\* A call returned a document for no solution file, two project files and
\* two open documents.
C3_Witness ==
    \E k \in ReturnedCalls :
        LET a == calls[k].args
        IN  /\ a.slnFiles = <<>>
            /\ Len(a.csprojFiles) = 2
            /\ Len(a.openFiles) = 2
            /\ Len(a.gitFiles) = 2

----------------------------------------------------------------------------
(* C9 *)

\* The files buildMarkdown reads for the arguments a.
ReadFiles(a) ==
    {a.slnFiles[i] : i \in DOMAIN a.slnFiles} \cup {a.csprojFiles[i] : i \in DOMAIN a.csprojFiles}

----------------------------------------------------------------------------
(* C10 *)

ScenarioArgs ==
    [gitFiles |-> <<"a.cs", "b.csproj">>, slnFiles |-> <<>>, csprojFiles |-> <<>>,
     openFiles |-> <<[filePath |-> "a.cs", language |-> "csharp", content |-> "x"]>>]

\* The position of the first occurrence of p in s, or 0.
IndexOf(s, p) ==
    LET at == {i \in 1..Len(s) : i + Len(p) - 1 <= Len(s) /\ SubSeq(s, i, i + Len(p) - 1) = p}
    IN  IF at = {} THEN 0 ELSE CHOOSE i \in at : \A j \in at : i <= j

\* C10: for the scenario's arguments the output begins with the heading, the
\* two bullets and a blank line, then holds the .sln warning, then the
\* .csproj warning, and ends with the heading "# a.cs", the fence tagged
\* csharp, the line "x", the closing fence and a line feed.
C10_Scenario ==
    \A k \in DOMAIN calls :
        calls[k].args = ScenarioArgs =>
            LET v == calls[k].ret.value
                head == "# Git File Structure\n- a.cs\n- b.csproj\n\n"
                tail == "# a.cs\n~~~csharp\nx\n~~~\n"
                sln == IndexOf(v, "No .sln file found")
                proj == IndexOf(v, "No .csproj file found")
            IN  /\ ~calls[k].ret.threw
                /\ StartsWith(v, head)
                /\ Len(head) < sln
                /\ sln < proj
                /\ proj < IndexOf(v, tail)
                /\ IndexOf(v, tail) = Len(v) - Len(tail) + 1

\* buildMarkdown was called with the scenario's arguments.
C10_Witness == \E k \in DOMAIN calls : calls[k].args = ScenarioArgs

----------------------------------------------------------------------------
(* C4 *)

\* The tabs in enumeration order: group by group, tab by tab.
AllTabs == Flatten(tabGroups)

\* The loaded text documents the n-th tab resolves to (none or one).
ResolvedDocs(n) ==
    IF HasUri(AllTabs[n].input)
    THEN {textDocuments[i] : i \in {j \in DOMAIN textDocuments :
                                      textDocuments[j].uri = AllTabs[n].input.uri}}
    ELSE {}

\* The tabs that resolve to a text document of the file path f.
TabsOf(f) == {n \in DOMAIN AllTabs : \E d \in ResolvedDocs(n) : d.fileName = f}

FilePaths == {textDocuments[i].fileName : i \in DOMAIN textDocuments}

\* C4: the sequence getAllOpenedTextDocuments returns holds at most one
\* entry per file path; a path that one or more tabs resolve to has exactly
\* one entry, the one of the first such tab in enumeration order.
C4_OnePerPathFirstWins ==
    \A c \in DOMAIN collected :
        LET R == collected[c]
        IN  /\ \A i, j \in DOMAIN R : i # j => R[i].filePath # R[j].filePath
            /\ \A f \in FilePaths :
                   TabsOf(f) # {} =>
                       LET first == CHOOSE n \in TabsOf(f) : \A m \in TabsOf(f) : n <= m
                       IN  \E i \in DOMAIN R :
                              /\ R[i].filePath = f
                              /\ \A d \in ResolvedDocs(first) : R[i].content = d.text

\* The documents were collected with two tabs on the same file path, the
\* first showing its version in the Git index, the later one the file.
C4_Witness ==
    /\ collected # <<>>
    /\ \E n, m \in DOMAIN AllTabs :
           /\ n < m
           /\ HasUri(AllTabs[n].input) /\ AllTabs[n].input.uri = "git:/w/a.cs"
           /\ HasUri(AllTabs[m].input) /\ AllTabs[m].input.uri = "file:///w/a.cs"
    /\ Len(tabGroups) = 2 /\ tabGroups[1] # <<>> /\ tabGroups[2] # <<>>

----------------------------------------------------------------------------
(* C5 *)

FixedLabels == {"csharp", "xml", "json"}

\* The languageId the editor reports for the text documents of the path f.
ReportedFor(f) ==
    {textDocuments[i].languageId : i \in {j \in DOMAIN textDocuments :
                                              textDocuments[j].fileName = f}}

\* C5 as stated: a collected path ending ".cs" is labelled csharp, ".csproj"
\* xml, ".json" json; any other path is labelled with the editor-reported
\* type or the empty string and with none of the three fixed labels.
C5_LabelByPathEnding ==
    \A c \in DOMAIN collected : \A i \in DOMAIN collected[c] :
        LET r == collected[c][i]
        IN  /\ EndsWith(r.filePath, ".cs") => r.language = "csharp"
            /\ EndsWith(r.filePath, ".csproj") => r.language = "xml"
            /\ EndsWith(r.filePath, ".json") => r.language = "json"
            /\ (~EndsWith(r.filePath, ".cs") /\ ~EndsWith(r.filePath, ".csproj")
                    /\ ~EndsWith(r.filePath, ".json"))
                 => /\ r.language \in ReportedFor(r.filePath) \cup {""}
                    /\ r.language \notin FixedLabels

\* C5, amended: the label goes by the path's extension as path.extname gives
\* it, lower-cased: ".cs" is labelled csharp, ".csproj" xml, ".json" json;
\* any other extension, or none, is labelled with the editor-reported type
\* (the empty string when there is none), whatever that is.
C5_LabelByLowerCasedExtname ==
    \A c \in DOMAIN collected : \A i \in DOMAIN collected[c] :
        LET r == collected[c][i]
            ext == toLowerCase(extname(r.filePath))
        IN  /\ ext = ".cs" => r.language = "csharp"
            /\ ext = ".csproj" => r.language = "xml"
            /\ ext = ".json" => r.language = "json"
            /\ ext \notin {".cs", ".csproj", ".json"}
                 => r.language \in ReportedFor(r.filePath)

\* The collected documents include the file named ".cs", an .xml file the
\* editor reports as xml, and a .json file.
C5_Witness ==
    \E c \in DOMAIN collected :
        /\ \E i \in DOMAIN collected[c] :
              collected[c][i].filePath = "/w/.cs" /\ collected[c][i].language = "plaintext"
        /\ \E i \in DOMAIN collected[c] :
              collected[c][i].filePath = "/w/data.xml" /\ collected[c][i].language = "xml"
        /\ \E i \in DOMAIN collected[c] :
              collected[c][i].filePath = "/w/d.json" /\ collected[c][i].language = "json"

----------------------------------------------------------------------------
(* C6 *)

\* The files invocation v read, or would have read, in buildMarkdown.
FilesOf(v) ==
    {v.slnFiles[k] : k \in DOMAIN v.slnFiles} \cup {v.csprojFiles[k] : k \in DOMAIN v.csprojFiles}

\* C6: an invocation never has both a document opened and an error shown,
\* nor two of either; when it is over, either one Markdown document holding
\* the complete generated text is opened and no error is shown, or one error
\* is shown and no document is opened; and no document is opened when a
\* discovered file could not be read.
C6_OneOutcome ==
    \A i \in DOMAIN inv :
        LET v == inv[i]
        IN  /\ Len(v.docs) + Len(v.errors) <= 1
            /\ v.pc = "done" =>
                  \/ /\ Len(v.docs) = 1
                     /\ v.errors = <<>>
                     /\ v.docs[1].language = "markdown"
                     /\ v.docs[1].content \o LF
                          = GitText(v.gitFiles)
                            \o FoundText(v.slnFiles, disk, SlnLiteral)
                            \o FoundText(v.csprojFiles, disk, CsprojLiteral)
                            \o OpenText(v.openFiles)
                  \/ /\ Len(v.errors) = 1
                     /\ v.docs = <<>>
            /\ (v.builds > 0 /\ \E f \in FilesOf(v) : disk[f] = Unreadable)
                  => (v.docs = <<>> /\ v.pc = "done" /\ Len(v.errors) = 1)

\* An invocation is over whose buildMarkdown read a solution file and then
\* failed to read a project file.
C6_Witness ==
    \E i \in DOMAIN inv :
        LET v == inv[i]
        IN  /\ v.pc = "done"
            /\ v.builds = 1
            /\ v.slnFiles # <<>>
            /\ \A k \in DOMAIN v.slnFiles : disk[v.slnFiles[k]] # Unreadable
            /\ \E k \in DOMAIN v.csprojFiles : disk[v.csprojFiles[k]] = Unreadable
            /\ Len(v.errors) = 1

----------------------------------------------------------------------------
(* C7 *)

\* C7: with no workspace folder open, an invoked command has shown the
\* no-workspace message and is over, and it has started no process, run no
\* workspace search, collected no open documents, built and opened nothing.
C7_NoWorkspace ==
    \A i \in DOMAIN inv :
        LET v == inv[i]
        IN  (NoWorkspace(workspaceFolders) /\ v.pc # "idle") =>
                /\ v.pc = "done"
                /\ v.errors = <<NoWorkspaceMessage>>
                /\ v.spawned = <<>>
                /\ v.searched = <<>>
                /\ v.collects = 0
                /\ v.builds = 0
                /\ v.docs = <<>>
                /\ v.shown = 0

\* The command was invoked with workspaceFolders an empty array.
C7_Witness ==
    /\ workspaceFolders.defined
    /\ workspaceFolders.folders = <<>>
    /\ \E i \in DOMAIN inv : inv[i].pc = "done"

----------------------------------------------------------------------------
(* C8 *)

\* C8: once the git process has ended with an error, the invocation is over
\* with that error shown, and it has run no workspace search, collected no
\* open documents, built and opened nothing.
C8_GitFailureAborts ==
    \A i \in DOMAIN inv :
        LET v == inv[i]
        IN  (v.git # <<>> /\ v.git[1].failed) =>
                /\ v.pc = "done"
                /\ v.errors = <<"Error: " \o v.git[1].error>>
                /\ v.searched = <<>>
                /\ v.collects = 0
                /\ v.builds = 0
                /\ v.docs = <<>>
                /\ v.shown = 0

\* The git process of an invocation ended with an error: the folder is not
\* a Git repository.
C8_Witness ==
    \E i \in DOMAIN inv :
        /\ inv[i].git # <<>>
        /\ inv[i].git[1].failed
        /\ Includes(inv[i].git[1].error, "not a git repository")
        /\ Len(inv[i].spawned) = 1

----------------------------------------------------------------------------
(* getGitFiles on the outputs of git ls-files *)

MaxLines == 4

\* What git may write between two line feeds: a path, a path with blanks
\* around it or a carriage return behind it, a path with a blank inside,
\* nothing, blanks only.
GitPieces == {"a.cs", " b.cs ", "a.cs\r", "", " \t", "src/b c.cs"}

GitStdouts == {join(p, LF) : p \in SeqsUpTo(GitPieces, MaxLines)}

ExecError == "Error: Command failed: git ls-files\nfatal: not a git repository (or any of the parent directories): .git\n"

InitGit ==
    /\ gitStdout \in GitStdouts
    /\ parsed = <<>>
    /\ disk = DiskPlain
    /\ args = NoArgs
    /\ calls = <<>>
    /\ tabGroups = <<>>
    /\ textDocuments = <<>>
    /\ collected = <<>>
    /\ workspaceFolders = NoFolders
    /\ inv = <<>>
    /\ ScaffoldIdle

\* exec calls back without an error: the promise resolves.
ExecSucceeded ==
    /\ parsed = <<>>
    /\ parsed' = <<getGitFiles([failed |-> FALSE, error |-> "", stdout |-> gitStdout])>>
    /\ UNCHANGED <<disk, args, calls, tabGroups, textDocuments, collected, workspaceFolders,
                   inv, gitStdout, scaffoldVars>>

\* exec calls back with an error, whatever had been written: the promise
\* is rejected.
ExecFailed ==
    /\ parsed = <<>>
    /\ parsed' = <<getGitFiles([failed |-> TRUE, error |-> ExecError, stdout |-> gitStdout])>>
    /\ UNCHANGED <<disk, args, calls, tabGroups, textDocuments, collected, workspaceFolders,
                   inv, gitStdout, scaffoldVars>>

NextGit == ExecSucceeded \/ ExecFailed

SpecGit == InitGit /\ [][NextGit]_vars

\* The positions of the line feeds of s, with 0 and Len(s) + 1 as the ends.
Breaks(s) == {0, Len(s) + 1} \cup {i \in 1..Len(s) : CharAt(s, i) = LF}

\* The text between two consecutive breaks, without what is blank at its
\* ends: from its first to its last character that is not white space.
CoreBetween(s, a, b) ==
    LET ink == {i \in (a + 1)..(b - 1) : CharAt(s, i) \notin Whitespace}
    IN  IF ink = {} THEN ""
        ELSE SubSeq(s, CHOOSE i \in ink : \A j \in ink : i <= j,
                       CHOOSE i \in ink : \A j \in ink : j <= i)

\* The non-blank lines of s, trimmed, in the order they stand in s.
RECURSIVE CoresFrom(_, _)
CoresFrom(s, a) ==
    IF a > Len(s) THEN <<>>
    ELSE LET b == CHOOSE i \in Breaks(s) : i > a /\ \A j \in Breaks(s) : j > a => i <= j
             core == CoreBetween(s, a, b)
         IN  (IF core = "" THEN <<>> ELSE <<core>>) \o CoresFrom(s, b)

\* C11: when exec reports no error, getGitFiles resolves with exactly the
\* lines of the standard output, each trimmed, those empty after trimming
\* dropped, in their order in the output: nothing else is removed, no path
\* that occurs twice is merged, nothing is sorted.
C11_TrimmedNonEmptyLinesInOrder ==
    \A k \in DOMAIN parsed :
        ~parsed[k].threw => parsed[k].value = CoresFrom(gitStdout, 0)

\* The output holds a blank line, a line with blanks around the path and
\* the same path twice, a later path sorting before an earlier one, and
\* getGitFiles has resolved.
C11_Witness ==
    /\ gitStdout = " b.cs \n \t\na.cs\r\na.cs"
    /\ parsed = <<Returned(<<"b.cs", "a.cs", "a.cs">>)>>

----------------------------------------------------------------------------
(* getAllOpenedTextDocuments on tabs that show no text document *)

MaxSkipTabs == 3

\* A tab of a loaded document (the same file as the file and as its Git
\* version, and another file), of a document that is not loaded, of a diff
\* (an input without a uri), and a tab whose input is undefined.
SkipTabInputs ==
    {[kind |-> "text", uri |-> u] :
        u \in {"file:///w/a.cs", "git:/w/a.cs", "file:///w/data.xml", "file:///w/gone.cs"}}
    \cup {[kind |-> "diff", original |-> "git:/w/a.cs", modified |-> "file:///w/a.cs"],
          [kind |-> "undefined"]}

SkipTabs == {[input |-> x] : x \in SkipTabInputs}

\* Up to MaxSkipTabs tabs, in one group or cut into two.
SkipArrangements ==
    {<<SubSeq(t, 1, k), SubSeq(t, k + 1, Len(t))>> :
        <<t, k>> \in {tk \in SeqsUpTo(SkipTabs, MaxSkipTabs) \X (0..MaxSkipTabs) :
                         tk[2] <= Len(tk[1])}}
    \cup {<<t>> : t \in SeqsUpTo(SkipTabs, MaxSkipTabs)}

InitSkips ==
    /\ tabGroups \in SkipArrangements
    /\ textDocuments = LoadedDocs
    /\ collected = <<>>
    /\ disk = DiskPlain
    /\ args = NoArgs
    /\ calls = <<>>
    /\ workspaceFolders = NoFolders
    /\ inv = <<>>
    /\ GitIdle
    /\ ScaffoldIdle

SpecSkips == InitSkips /\ [][NextTabs]_vars

\* The tabs, in enumeration order, that show a loaded text document.
Resolvable == {n \in DOMAIN AllTabs : ResolvedDocs(n) # {}}

\* Those of them no earlier such tab shows the same file path as.
FirstOfPath ==
    {n \in Resolvable :
        \A m \in Resolvable :
            m < n => \A d \in ResolvedDocs(n), e \in ResolvedDocs(m) : d.fileName # e.fileName}

\* C16: a tab with no resolvable text document (an undefined input, an
\* input without a uri, a uri no loaded text document has) makes the
\* collection neither fail nor stop: it adds no entry, and the tabs before
\* and after it in every group are processed, so that the result is
\* exactly the entries of the resolvable tabs that are the first of their
\* file path, in enumeration order.
C16_UnresolvableTabsSkipped ==
    \A c \in DOMAIN collected :
        LET R == collected[c]
        IN  /\ Len(R) = Cardinality(FirstOfPath)
            /\ \A k \in DOMAIN R :
                   \E n \in FirstOfPath :
                       /\ Cardinality({m \in FirstOfPath : m <= n}) = k
                       /\ \A d \in ResolvedDocs(n) :
                              R[k].filePath = d.fileName /\ R[k].content = d.text

\* The documents were collected with a tab of a document that is not
\* loaded first, a diff or a tab without input last and a resolvable tab
\* after each unresolvable one, in two groups.
C16_Witness ==
    /\ collected # <<>>
    /\ Len(tabGroups) = 2 /\ tabGroups[1] # <<>> /\ tabGroups[2] # <<>>
    /\ Len(AllTabs) = 3
    /\ AllTabs[1].input = [kind |-> "text", uri |-> "file:///w/gone.cs"]
    /\ AllTabs[2].input = [kind |-> "text", uri |-> "file:///w/data.xml"]
    /\ ~HasUri(AllTabs[3].input)
    /\ collected[1] = <<[filePath |-> "/w/data.xml", language |-> "xml", content |-> "<d/>"]>>

----------------------------------------------------------------------------
(* The export command invoked again while an invocation is pending *)

\* Two invocations in an open workspace; files that can be read, or two
\* that cannot.
InitOverlap ==
    /\ disk \in {DiskPlain, DiskGone}
    /\ workspaceFolders = [defined |-> TRUE, folders |-> <<"/w">>]
    /\ tabGroups \in EditorTabs
    /\ textDocuments = LoadedDocs
    /\ inv = [i \in {1, 2} |-> IdleInvocation]
    /\ args = NoArgs
    /\ calls = <<>>
    /\ collected = <<>>
    /\ GitIdle
    /\ ScaffoldIdle

SpecOverlap == InitOverlap /\ [][Next]_vars

\* The text document of the uri u among the editor's, as a set.
LoadedAt(u) == {textDocuments[k] : k \in {n \in DOMAIN textDocuments : textDocuments[n].uri = u}}

\* What each invocation holds is its own: one git query, started when it was
\* invoked; the tracked paths parsed from that query's output; at the end
\* one outcome, a document or an error message; the document being the text
\* built from what this invocation collected, and a document of its own.
OwnDataOnly ==
    /\ \A i \in DOMAIN inv :
           LET v == inv[i]
           IN  /\ Len(v.spawned) = (IF v.pc = "idle" THEN 0 ELSE 1)
               /\ v.pc \in {"idle", "git", "sln", "csproj", "open", "done"}
               /\ v.pc \in {"sln", "csproj", "open"} \/ v.docs # <<>> =>
                      /\ Len(v.git) = 1 /\ ~v.git[1].failed
                      /\ v.gitFiles = ParseGitOutput(v.git[1].stdout)
               /\ v.pc = "done" => Len(v.docs) + Len(v.errors) = 1
               /\ v.pc # "done" => v.docs = <<>> /\ v.errors = <<>>
               /\ \A d \in DOMAIN v.docs :
                      /\ Returned(v.docs[d].content) =
                             buildMarkdown(v.gitFiles, v.slnFiles, v.csprojFiles, v.openFiles, disk)
                      /\ \E t \in LoadedAt(v.docs[d].uri) : t.text = v.docs[d].content
    /\ \A i, j \in DOMAIN inv :
           i # j /\ inv[i].docs # <<>> /\ inv[j].docs # <<>> =>
               inv[i].docs[1].uri # inv[j].docs[1].uri

\* A step is one invocation's: it moves that invocation on from where it
\* was and leaves what every other invocation holds as it was.
OneInvocationSteps ==
    \E i \in DOMAIN inv :
        /\ inv[i].pc # "done" /\ inv'[i].pc # inv[i].pc
        /\ \A j \in DOMAIN inv \ {i} : inv'[j] = inv[j]

\* C17: the invocations of the export command share no mutable state.  With
\* two invocations overlapping in any way, each starts its own git query,
\* once; each takes its tracked paths from the output of its own query; no
\* step of one changes what the other holds or where it is; a finished
\* invocation has exactly one outcome of its own, a document or an error
\* message; the document an invocation opens is the text built from what
\* that invocation collected; and two invocations that both succeed open
\* two separate documents.
C17_InvocationsIndependent == []OwnDataOnly /\ [][OneInvocationSteps]_vars

\* Both invocations were pending at once, both have opened a document, and
\* the two documents differ: the second was invoked while the first awaited
\* git, their queries gave different paths, and the first finished last.
C17_Witness ==
    /\ DOMAIN inv = {1, 2}
    /\ inv[1].pc = "done" /\ inv[2].pc = "done"
    /\ Len(inv[1].docs) = 1 /\ Len(inv[2].docs) = 1
    /\ inv[1].gitFiles # inv[2].gitFiles
    /\ inv[1].docs[1].content # inv[2].docs[1].content
    /\ inv[1].docs[1].uri = "untitled:Untitled-2"
    /\ inv[2].docs[1].uri = "untitled:Untitled-1"

----------------------------------------------------------------------------
(* Program.cs: the generator of the extension's project *)
(* Paths are written with "/" whatever Path.Combine uses; the texts of the *)
(* console are those of the second copy of the program in the file, which  *)
(* differs from the first in the language of its comments and messages.    *)

baseDir == "csharp-md-exporter"

\* Path.Combine
Combine(a, b) == a \o "/" \o b

\* The directories CreateDirectoryStructure creates.
SkeletonDirs ==
    {baseDir, Combine(baseDir, ".vscode"), Combine(baseDir, "src"),
     Combine(baseDir, "src/test"), Combine(baseDir, "src/test/suite")}

GitIgnorePath == Combine(baseDir, ".gitignore")
PackageJsonPath == Combine(baseDir, "package.json")
TsConfigPath == Combine(baseDir, "tsconfig.json")
ExtensionTsPath == Combine(baseDir, "src/extension.ts")
ExtensionTestTsPath == Combine(baseDir, "src/test/suite/extension.test.ts")
LaunchJsonPath == Combine(baseDir, ".vscode/launch.json")
ExtensionsJsonPath == Combine(baseDir, ".vscode/extensions.json")

\* The texts written, each by its beginning.
GitIgnoreText == "node_modules\nout\n.vscode-test\n"
PackageJsonText == "{\n  \"name\": \"csharp-md-exporter\","
TsConfigText == "{\n  \"compilerOptions\": {"
ExtensionTestTsText == "import * as assert from 'assert';"
LaunchJsonText == "{\n  \"version\": \"0.2.0\","
ExtensionsJsonText == "{\n  \"recommendations\": [\n  ]\n}\n"

\* The embedded resource CSharpMarkdownExporter.extension.ts, when the
\* assembly was built with it, by its beginning.
EmbeddedExtensionTs == "import * as vscode from 'vscode';"

\* File.WriteAllText: the file is created, or overwritten.
WriteAllText(t, path, content) ==
    [t EXCEPT !.files = [q \in DOMAIN t.files \cup {path} |->
                            IF q = path THEN content ELSE t.files[q]]]

\* One entry of ops.
Op(kind, what) == [op |-> kind, what |-> what]

\* What earlier runs, and whoever else, may have left where the directory is
\* to be: nothing; the skeleton with what npm, tsc and vsce added and an
\* extension.ts edited since; a directory of something else.
LeftByBuild ==
    [dirs |-> SkeletonDirs \cup {Combine(baseDir, "node_modules"), Combine(baseDir, "out")},
     files |-> (GitIgnorePath :> GitIgnoreText) @@ (PackageJsonPath :> "{}")
               @@ (ExtensionTsPath :> "// edited")
               @@ (Combine(baseDir, "node_modules/.package-lock.json") :> "{}")
               @@ (Combine(baseDir, "out/extension.js") :> "\"use strict\";")
               @@ (Combine(baseDir, "csharp-md-exporter-0.0.1.vsix") :> "PK")]
LeftByOther ==
    [dirs |-> {baseDir, Combine(baseDir, "docs")},
     files |-> (Combine(baseDir, "docs/README.md") :> "# notes")]
InitTargets == {NoTarget, LeftByBuild, LeftByOther}

MaxRuns == 2

\* The commands PackageExtension runs, in its order.
Commands == <<"npm install", "npm run compile", "vsce package">>

\* What a command adds to the directory when it does its work.
Made(command) ==
    CASE command = "npm install" ->
             [dirs |-> {Combine(baseDir, "node_modules")},
              files |-> (Combine(baseDir, "node_modules/.package-lock.json") :> "{}")]
      [] command = "npm run compile" ->
             [dirs |-> {Combine(baseDir, "out")},
              files |-> (Combine(baseDir, "out/extension.js") :> "\"use strict\";")]
      [] OTHER ->
             [dirs |-> {},
              files |-> (Combine(baseDir, "csharp-md-exporter-0.0.1.vsix") :> "PK")]

\* How a process may end: its exit code, and whether it did its work.
ExitOutcomes ==
    {[code |-> 0, made |-> TRUE], [code |-> 1, made |-> FALSE], [code |-> 2, made |-> TRUE]}

CodeText(code) == CASE code = 0 -> "0" [] code = 1 -> "1" [] OTHER -> "2"

SkeletonCreatedText == "VSCode extension skeleton has been created."
ResourceNotFoundText ==
    "ERROR: Embedded resource 'CSharpMarkdownExporter.extension.ts' not found."
NoPackageJsonText == "package.json does not exist. Skipping packaging."
CompletedTexts ==
    <<"Packaging process completed.",
      "Output directory: " \o Combine("C:/work", baseDir),
      "If a .vsix file has been generated, the packaging succeeded.">>

InitScaffold ==
    /\ target \in InitTargets
    /\ resource \in {<<>>, <<EmbeddedExtensionTs>>}
    /\ pc = "CreateDirectoryStructure"
    /\ console = <<>>
    /\ procs = <<>>
    /\ ops = <<>>
    /\ emitted = <<>>
    /\ disk = DiskPlain
    /\ args = NoArgs
    /\ calls = <<>>
    /\ tabGroups = <<>>
    /\ textDocuments = <<>>
    /\ collected = <<>>
    /\ workspaceFolders = NoFolders
    /\ inv = <<>>
    /\ GitIdle

\* CreateDirectoryStructure that leaves an existing directory as it is.
CreateDirectoryStructure_KeepOld ==
    /\ pc = "CreateDirectoryStructure"
    /\ target' = [target EXCEPT !.dirs = @ \cup SkeletonDirs]
    /\ ops' = ops \o <<Op("mkdir", baseDir)>>
    /\ pc' = "WriteGitIgnore"
    /\ UNCHANGED <<disk, args, calls, tabGroups, textDocuments, collected, workspaceFolders,
                   inv, gitVars, resource, console, procs, emitted>>

\* The directory, if it exists, is deleted with all that is in it, and the
\* directories of the skeleton are created.
CreateDirectoryStructure ==
    /\ pc = "CreateDirectoryStructure"
    /\ target' = [dirs |-> SkeletonDirs, files |-> NoTarget.files]
    /\ ops' = ops \o (IF baseDir \in target.dirs THEN <<Op("delete", baseDir)>> ELSE <<>>)
                  \o <<Op("mkdir", baseDir)>>
    /\ pc' = "WriteGitIgnore"
    /\ UNCHANGED <<disk, args, calls, tabGroups, textDocuments, collected, workspaceFolders,
                   inv, gitVars, resource, console, procs, emitted>>

\* File.WriteAllText of a function of Main, noted in ops.
Write(path, content) ==
    /\ target' = WriteAllText(target, path, content)
    /\ ops' = Append(ops, Op("write", path))

\* .gitignore is written.
WriteGitIgnore ==
    /\ pc = "WriteGitIgnore"
    /\ Write(GitIgnorePath, GitIgnoreText)
    /\ pc' = "WritePackageJson"
    /\ UNCHANGED <<disk, args, calls, tabGroups, textDocuments, collected, workspaceFolders,
                   inv, gitVars, resource, console, procs, emitted>>

\* package.json is written.
WritePackageJson ==
    /\ pc = "WritePackageJson"
    /\ Write(PackageJsonPath, PackageJsonText)
    /\ pc' = "WriteTsConfigJson"
    /\ UNCHANGED <<disk, args, calls, tabGroups, textDocuments, collected, workspaceFolders,
                   inv, gitVars, resource, console, procs, emitted>>

\* tsconfig.json is written.
WriteTsConfigJson ==
    /\ pc = "WriteTsConfigJson"
    /\ Write(TsConfigPath, TsConfigText)
    /\ pc' = "WriteExtensionTs"
    /\ UNCHANGED <<disk, args, calls, tabGroups, textDocuments, collected, workspaceFolders,
                   inv, gitVars, resource, console, procs, emitted>>

\* extension.ts is written from the embedded resource; without the resource
\* the error is written to the console and no file.
WriteExtensionTs ==
    /\ pc = "WriteExtensionTs"
    /\ IF resource = <<>>
       THEN /\ console' = Append(console, ResourceNotFoundText)
            /\ UNCHANGED <<target, ops>>
       ELSE /\ Write(ExtensionTsPath, resource[1])
            /\ UNCHANGED console
    /\ pc' = "WriteExtensionTestTs"
    /\ UNCHANGED <<disk, args, calls, tabGroups, textDocuments, collected, workspaceFolders,
                   inv, gitVars, resource, procs, emitted>>

\* src/test/suite/extension.test.ts is written.
WriteExtensionTestTs ==
    /\ pc = "WriteExtensionTestTs"
    /\ Write(ExtensionTestTsPath, ExtensionTestTsText)
    /\ pc' = "WriteLaunchJson"
    /\ UNCHANGED <<disk, args, calls, tabGroups, textDocuments, collected, workspaceFolders,
                   inv, gitVars, resource, console, procs, emitted>>

\* .vscode/launch.json is written.
WriteLaunchJson ==
    /\ pc = "WriteLaunchJson"
    /\ Write(LaunchJsonPath, LaunchJsonText)
    /\ pc' = "WriteExtensionsJson"
    /\ UNCHANGED <<disk, args, calls, tabGroups, textDocuments, collected, workspaceFolders,
                   inv, gitVars, resource, console, procs, emitted>>

\* WriteExtensionsJson that writes a README.md as well.
WriteExtensionsJson_AndReadme ==
    /\ pc = "WriteExtensionsJson"
    /\ target' = WriteAllText(WriteAllText(target, ExtensionsJsonPath, ExtensionsJsonText),
                               Combine(baseDir, "README.md"), "# csharp-md-exporter")
    /\ ops' = ops \o <<Op("write", ExtensionsJsonPath), Op("write", Combine(baseDir, "README.md"))>>
    /\ pc' = "SkeletonCreated"
    /\ UNCHANGED <<disk, args, calls, tabGroups, textDocuments, collected, workspaceFolders,
                   inv, gitVars, resource, console, procs, emitted>>

\* .vscode/extensions.json is written.
WriteExtensionsJson ==
    /\ pc = "WriteExtensionsJson"
    /\ Write(ExtensionsJsonPath, ExtensionsJsonText)
    /\ pc' = "SkeletonCreated"
    /\ UNCHANGED <<disk, args, calls, tabGroups, textDocuments, collected, workspaceFolders,
                   inv, gitVars, resource, console, procs, emitted>>

\* Main reports the skeleton; emitted notes what the directory holds now.
SkeletonCreated ==
    /\ pc = "SkeletonCreated"
    /\ console' = Append(console, SkeletonCreatedText)
    /\ emitted' = Append(emitted, target.files)
    /\ pc' = "PackageExtension"
    /\ UNCHANGED <<disk, args, calls, tabGroups, textDocuments, collected, workspaceFolders,
                   inv, gitVars, target, resource, procs, ops>>

\* PackageExtension: without package.json it says so and returns; with it,
\* it goes on to the first RunCommand.
PackageExtension ==
    /\ pc = "PackageExtension"
    /\ IF PackageJsonPath \notin DOMAIN target.files
       THEN console' = Append(console, NoPackageJsonText) /\ pc' = "Completed"
       ELSE UNCHANGED console /\ pc' = "RunCommand"
    /\ UNCHANGED <<disk, args, calls, tabGroups, textDocuments, collected, workspaceFolders,
                   inv, gitVars, target, resource, procs, ops, emitted>>

\* The line RunCommand writes before it starts the process.
CommandLineText(command) == "> " \o command \o " @ " \o baseDir

ExitCodeText(code) == "ERROR: Command exited with code " \o CodeText(code) \o "."

\* RunCommand that starts the process and returns without waiting for it.
RunCommand_NoWait ==
    /\ pc = "RunCommand"
    /\ LET command == Commands[Len(procs) + 1]
       IN  /\ console' = Append(console, CommandLineText(command))
           /\ procs' = Append(procs, [command |-> command, exited |-> FALSE, code |-> 0])
           /\ ops' = Append(ops, Op("start", command))
    /\ pc' = IF Len(procs) + 1 < Len(Commands) THEN "RunCommand" ELSE "WaitForExit"
    /\ UNCHANGED <<disk, args, calls, tabGroups, textDocuments, collected, workspaceFolders,
                   inv, gitVars, target, resource, emitted>>

\* RunCommand up to WaitForExit: the command of its turn is written to the
\* console and cmd.exe is started with it in the directory.
RunCommand ==
    /\ pc = "RunCommand"
    /\ LET command == Commands[Len(procs) + 1]
       IN  /\ console' = Append(console, CommandLineText(command))
           /\ procs' = Append(procs, [command |-> command, exited |-> FALSE, code |-> 0])
           /\ ops' = Append(ops, Op("start", command))
    /\ pc' = "WaitForExit"
    /\ UNCHANGED <<disk, args, calls, tabGroups, textDocuments, collected, workspaceFolders,
                   inv, gitVars, target, resource, emitted>>

\* WaitForExit that ends the program when the exit code is not 0.
WaitForExit_Abort ==
    /\ pc = "WaitForExit"
    /\ \E o \in ExitOutcomes :
          LET command == procs[Len(procs)].command
          IN  /\ procs' = [procs EXCEPT ![Len(procs)] = [@ EXCEPT !.exited = TRUE, !.code = o.code]]
              /\ target' = IF o.made
                            THEN [dirs |-> target.dirs \cup Made(command).dirs,
                                  files |-> Made(command).files @@ target.files]
                            ELSE target
              /\ console' = IF o.code # 0 THEN Append(console, ExitCodeText(o.code)) ELSE console
              /\ ops' = Append(ops, Op("exit", command))
              /\ pc' = IF o.code # 0 THEN "exit"
                        ELSE IF Len(procs) < Len(Commands) THEN "RunCommand" ELSE "Completed"
    /\ UNCHANGED <<disk, args, calls, tabGroups, textDocuments, collected, workspaceFolders,
                   inv, gitVars, resource, emitted>>

\* The process exits, having done its work in the directory or not, and
\* WaitForExit returns; RunCommand writes an exit code that is not 0 to the
\* console and returns, to the next RunCommand or to Main.
WaitForExit ==
    /\ pc = "WaitForExit"
    /\ \E o \in ExitOutcomes :
          LET command == procs[Len(procs)].command
          IN  /\ procs' = [procs EXCEPT ![Len(procs)] = [@ EXCEPT !.exited = TRUE, !.code = o.code]]
              /\ target' = IF o.made
                            THEN [dirs |-> target.dirs \cup Made(command).dirs,
                                  files |-> Made(command).files @@ target.files]
                            ELSE target
              /\ console' = IF o.code # 0 THEN Append(console, ExitCodeText(o.code)) ELSE console
              /\ ops' = Append(ops, Op("exit", command))
    /\ pc' = IF Len(procs) < Len(Commands) THEN "RunCommand" ELSE "Completed"
    /\ UNCHANGED <<disk, args, calls, tabGroups, textDocuments, collected, workspaceFolders,
                   inv, gitVars, resource, emitted>>

\* Main's last lines: the completion is reported and the program ends.
Completed ==
    /\ pc = "Completed"
    /\ console' = console \o CompletedTexts
    /\ ops' = Append(ops, Op("report", baseDir))
    /\ pc' = "exit"
    /\ UNCHANGED <<disk, args, calls, tabGroups, textDocuments, collected, workspaceFolders,
                   inv, gitVars, target, resource, procs, emitted>>

\* The program is run again where it was run, extension.ts having been
\* edited in between or not.
RunAgain ==
    /\ pc = "exit"
    /\ Len(emitted) < MaxRuns
    /\ target' \in {target, WriteAllText(target, ExtensionTsPath, "// edited")}
    /\ pc' = "CreateDirectoryStructure"
    /\ console' = <<>>
    /\ procs' = <<>>
    /\ ops' = <<>>
    /\ UNCHANGED <<disk, args, calls, tabGroups, textDocuments, collected, workspaceFolders,
                   inv, gitVars, resource, emitted>>

NextScaffold ==
    \/ CreateDirectoryStructure
    \/ WriteGitIgnore
    \/ WritePackageJson
    \/ WriteTsConfigJson
    \/ WriteExtensionTs
    \/ WriteExtensionTestTs
    \/ WriteLaunchJson
    \/ WriteExtensionsJson
    \/ SkeletonCreated
    \/ PackageExtension
    \/ RunCommand
    \/ WaitForExit
    \/ Completed
    \/ RunAgain

SpecScaffold == InitScaffold /\ [][NextScaffold]_vars

\* The program takes its steps, and every process started exits.
SpecScaffoldFair == SpecScaffold /\ WF_vars(NextScaffold)

----------------------------------------------------------------------------
(* Claims on Program.cs *)

\* The places in ops of the operations of one kind.
OpsOf(kind) == {k \in DOMAIN ops : ops[k].op = kind}

\* The files the run is to write: extension.ts only with the resource.
PathsToWrite ==
    {GitIgnorePath, PackageJsonPath, TsConfigPath, ExtensionTestTsPath, LaunchJsonPath,
     ExtensionsJsonPath} \cup (IF resource = <<>> THEN {} ELSE {ExtensionTsPath})

\* The files the commands that have exited in this run may have added.
MadeSoFar == UNION {DOMAIN Made(ops[k].what).files : k \in OpsOf("exit")}

\* The commands started in this run, in the order they were started.
StartedCommands ==
    LET IsStart(o) == o.op = "start"
        starts == SelectSeq(ops, IsStart)
    IN  [k \in DOMAIN starts |-> starts[k].what]

\* C12: a run goes through Clean, Emit, Install and Package in this order.
\* Deleting and creating the directory comes before every write, and once
\* anything is written nothing of what was there before the run is left;
\* a command is started only when every file the run writes is written and
\* the command before it has exited; the commands started are npm install,
\* npm run compile and vsce package in this order, none twice, and a run
\* that has ended has started all three.
C12_StagesInOrder ==
    /\ \A w \in OpsOf("write") : \A c \in OpsOf("delete") \cup OpsOf("mkdir") : c < w
    /\ pc # "CreateDirectoryStructure" =>
           /\ OpsOf("mkdir") # {}
           /\ DOMAIN target.files \subseteq PathsToWrite \cup MadeSoFar
           /\ \A w \in OpsOf("write") : ops[w].what \in DOMAIN target.files
    /\ \A st \in OpsOf("start") :
           /\ \A w \in OpsOf("write") : w < st
           /\ {ops[w].what : w \in OpsOf("write")} = PathsToWrite
           /\ st > 1 /\ ops[st - 1].op \in {"write", "exit"}
           /\ ops[st - 1].op = "write" => \A k \in OpsOf("start") : st <= k
    /\ \A e \in OpsOf("exit") : e > 1 /\ ops[e - 1] = Op("start", ops[e].what)
    /\ StartedCommands = SubSeq(Commands, 1, Len(StartedCommands))
    /\ Len(procs) = Len(StartedCommands)
    /\ \A k \in DOMAIN procs : k < Len(procs) => procs[k].exited
    /\ pc = "exit" => StartedCommands = Commands /\ \A k \in DOMAIN procs : procs[k].exited

\* A run has ended that found a directory and deleted it, wrote its files
\* and ran the three commands, the first of which failed.
C12_Witness ==
    /\ pc = "exit"
    /\ ops[1] = Op("delete", baseDir)
    /\ Cardinality(OpsOf("write")) = 7
    /\ Len(procs) = 3 /\ procs[1].code # 0 /\ procs[3].code = 0

\* The last lines of the console are the report of completion.
CompletionReported ==
    /\ Len(console) >= Len(CompletedTexts)
    /\ SubSeq(console, Len(console) - Len(CompletedTexts) + 1, Len(console)) = CompletedTexts

\* The processes that have exited with a code other than 0.
FailedProcs == {k \in DOMAIN procs : procs[k].exited /\ procs[k].code # 0}

\* A failed command is written to the console, once, and changes nothing
\* in what follows: the command after it is started as after a success,
\* and the run ends with the report of completion.
FailureOnlyLogged ==
    /\ \A k \in FailedProcs :
           /\ \E n \in DOMAIN console : console[n] = ExitCodeText(procs[k].code)
           /\ k < Len(Commands) => Len(procs) > k \/ pc = "RunCommand"
           /\ k = Len(Commands) => pc \in {"Completed", "exit"}
    /\ Cardinality({n \in DOMAIN console :
                        \E o \in ExitOutcomes : console[n] = ExitCodeText(o.code)})
           = Cardinality(FailedProcs)
    /\ pc = "exit" => CompletionReported /\ Len(procs) = Len(Commands)

\* C13: a command that exits with a code other than 0 is only logged: the
\* next command is run whichever commands failed before it and the program
\* reports completion; and when every command started exits, every run
\* that is started comes to its report of completion.
C13_FailuresOnlyLogged ==
    /\ []FailureOnlyLogged
    /\ (pc = "CreateDirectoryStructure") ~> (pc = "exit" /\ CompletionReported)

\* A run has ended in which all three commands failed.
C13_Witness ==
    /\ pc = "exit"
    /\ CompletionReported
    /\ Len(procs) = 3
    /\ \A k \in DOMAIN procs : procs[k].code # 0

\* The stages of Main between creating the directory and running commands.
Emitting ==
    pc \in {"WriteGitIgnore", "WritePackageJson", "WriteTsConfigJson", "WriteExtensionTs",
            "WriteExtensionTestTs", "WriteLaunchJson", "WriteExtensionsJson",
            "SkeletonCreated", "PackageExtension"}

\* C14: run twice on the same directory, the program generates the same
\* files with the same texts both times.  Whatever the first run and its
\* commands left, and whatever was edited since, is deleted before the
\* second run writes: while it writes, the directory holds only its own
\* directories and files written in this run, and what it holds when the
\* skeleton is reported is what it held then in the run before.
C14_SecondRunSame ==
    /\ \A j, k \in DOMAIN emitted : emitted[j] = emitted[k]
    /\ \A k \in DOMAIN emitted : DOMAIN emitted[k] = PathsToWrite
    /\ Emitting =>
           /\ target.dirs = SkeletonDirs
           /\ DOMAIN target.files = {ops[w].what : w \in OpsOf("write")}
           /\ ExtensionTsPath \in DOMAIN target.files =>
                  target.files[ExtensionTsPath] = EmbeddedExtensionTs

\* The second run has reported its skeleton, having deleted the directory
\* the first run left.
C14_Witness ==
    /\ Len(emitted) = 2
    /\ pc = "PackageExtension"
    /\ ops[1] = Op("delete", baseDir)
    /\ ExtensionTsPath \in DOMAIN emitted[2]
    /\ emitted[1] = emitted[2]

\* The files that are not among the seven a run may write.
OtherFiles ==
    DOMAIN target.files \ {GitIgnorePath, PackageJsonPath, TsConfigPath, ExtensionTsPath,
                            ExtensionTestTsPath, LaunchJsonPath, ExtensionsJsonPath}

====
